---- MODULE Spec2Model ----
(***************************************************************************)
(* A model of refactor (main.go): the git log parser, the churn scorer,    *)
(* the thrash detector and the ranker.                                     *)
(*                                                                         *)
(* Text is modelled as TLA+ strings and is parsed, split and joined        *)
(* character by character, as the regular expressions and the strings      *)
(* package do.  Scores are float64 in the program; every score of the      *)
(* model is a small whole number, which float64 holds exactly, so they are *)
(* integers here.  A *Commit is the index of the commit in commits.        *)
(***************************************************************************)
EXTENDS Integers, Sequences, FiniteSets, TLC

VARIABLES
    pc,       \* the phase: "log" in GitLog, "main" in main's loops, "done"; "edit" in edit2score
    input,    \* the lines of git log's output (what the Scanner yields)
    lpos,     \* the index of the next line the Scanner yields
    commits,  \* GitLog's result, []*Commit
    ci,       \* the index of the next commit of the churn loop
    m,        \* map[string]*Target
    visited,  \* the keys of m the range loop has been through
    cur,      \* the key of the Target under analysis, "" between two Targets
    k,        \* the index of the next member commit to replay
    plus,     \* map[string]string: line -> ID of the commit that added it last
    minus,    \* map[string]string: line -> ID of the commit that removed it last
    delta,    \* map[string]int: line -> thrash count
    targets,  \* []*Target, as keys of m
    repo,     \* the repository: commit ID -> the lines GitDiff returns for it, or its failure
    arg,      \* edit2score's argument
    score     \* edit2score's result

vars == <<pc, input, lpos, commits, ci, m, visited, cur, k, plus, minus, delta,
          targets, repo, arg, score>>

(***************************************************************************)
(* Strings                                                                 *)
(***************************************************************************)
Char(s, i) == SubSeq(s, i, i)

From(s, i) == SubSeq(s, i, Len(s))

HasPrefix(s, p) == Len(s) >= Len(p) /\ SubSeq(s, 1, Len(p)) = p

HasSuffix(s, p) == Len(s) >= Len(p) /\ SubSeq(s, Len(s) - Len(p) + 1, Len(s)) = p

\* The fields of s between the separators sep (a one-character string).
RECURSIVE Split(_, _)
Split(s, sep) ==
    IF s = "" THEN <<"">>
    ELSE LET r == Split(From(s, 2), sep)
         IN  IF Char(s, 1) = sep THEN <<"">> \o r
             ELSE <<Char(s, 1) \o r[1]>> \o Tail(r)

RECURSIVE Join(_, _)
Join(a, sep) ==
    IF Len(a) = 0 THEN ""
    ELSE IF Len(a) = 1 THEN a[1]
    ELSE a[1] \o sep \o Join(Tail(a), sep)

Digits == {"0", "1", "2", "3", "4", "5", "6", "7", "8", "9"}

DigitValue(c) ==
    CASE c = "0" -> 0 [] c = "1" -> 1 [] c = "2" -> 2 [] c = "3" -> 3 [] c = "4" -> 4
      [] c = "5" -> 5 [] c = "6" -> 6 [] c = "7" -> 7 [] c = "8" -> 8 [] c = "9" -> 9

\* [0-9]+
IsNumber(s) == Len(s) >= 1 /\ \A i \in 1..Len(s) : Char(s, i) \in Digits

RECURSIVE Atoi(_)
Atoi(s) ==
    IF s = "" THEN 0
    ELSE 10 * Atoi(SubSeq(s, 1, Len(s) - 1)) + DigitValue(Char(s, Len(s)))

\* strconv.ParseInt(s, 10, 64) of a string the caller's regexp let through:
\* <<value>>, or <<>> for an error.  A string of 20 digits or more is out of
\* int64's range; the model's inputs have at most 3 digits or at least 20.
ParseInt(s) == IF ~IsNumber(s) \/ Len(s) >= 20 THEN <<>> ELSE <<Atoi(s)>>

(***************************************************************************)
(* GitLog                                                                  *)
(***************************************************************************)
NoMatch == <<>>

\* ^commit (.+)$  -> <<line, ID>>
commitRegexp(line) ==
    IF HasPrefix(line, "commit ") /\ Len(line) > 7 THEN <<line, From(line, 8)>> ELSE NoMatch

\* ^tree (.+)$
treeRegexp(line) ==
    IF HasPrefix(line, "tree ") /\ Len(line) > 5 THEN <<line, From(line, 6)>> ELSE NoMatch

\* ^parent (.+)$
parentRegexp(line) ==
    IF HasPrefix(line, "parent ") /\ Len(line) > 7 THEN <<line, From(line, 8)>> ELSE NoMatch

\* ^author ([^ ]+) <([^ ]+)> ([^ ]+) [^ ]+$
authorRegexp(line) ==
    LET f == Split(line, " ")
    IN  IF /\ Len(f) = 5
           /\ f[1] = "author"
           /\ \A i \in 2..5 : f[i] # ""
           /\ Len(f[3]) >= 3
           /\ Char(f[3], 1) = "<"
           /\ Char(f[3], Len(f[3])) = ">"
        THEN <<line, f[2], SubSeq(f[3], 2, Len(f[3]) - 1), f[4]>>
        ELSE NoMatch

\* ^[ ]{4}(.+)$
messageRegexp(line) ==
    IF HasPrefix(line, "    ") /\ Len(line) > 4 THEN <<line, From(line, 5)>> ELSE NoMatch

\* ^([0-9]+)\t([0-9]+)\t(.+)$
diffRegexp(line) ==
    LET f == Split(line, "\t")
    IN  IF /\ Len(f) >= 3
           /\ IsNumber(f[1])
           /\ IsNumber(f[2])
           /\ Len(line) > Len(f[1]) + Len(f[2]) + 2
        THEN <<line, f[1], f[2], From(line, Len(f[1]) + Len(f[2]) + 3)>>
        ELSE NoMatch

\* The zero Author; Time is <<>> for the zero time.Time, <<i>> for time.Unix(i, 0).
NoAuthor == [Name |-> "", Email |-> "", Time |-> <<>>]

NewCommit(id) ==
    [ID |-> id, Tree |-> "", Parent |-> "", Author |-> NoAuthor,
     Message |-> <<>>, Diff |-> <<>>]

\* A parser that files every line under the first Commit.
CurrentIsFirst(cs) == 1

\* The index of the Commit a line goes to: commits[len(commits)-1].
Current(cs) == Len(cs)

\* commits with the current Commit's field set
SetLast(cs, field, value) == [cs EXCEPT ![Current(cs)][field] = value]

\* One turn of the Scanner loop: cs after the line.
ScanLine(cs, line) ==
    LET isCommit == commitRegexp(line)
        isTree == treeRegexp(line)
        isParent == parentRegexp(line)
        isAuthor == authorRegexp(line)
        isMessage == messageRegexp(line)
        isDiff == diffRegexp(line)
    IN  IF isCommit # NoMatch THEN
            Append(cs, NewCommit(isCommit[2]))
        ELSE IF isTree # NoMatch THEN
            IF Len(cs) = 0 THEN cs ELSE SetLast(cs, "Tree", isTree[2])
        ELSE IF isParent # NoMatch THEN
            IF Len(cs) = 0 THEN cs ELSE SetLast(cs, "Parent", isParent[2])
        ELSE IF isAuthor # NoMatch THEN
            LET i == ParseInt(isAuthor[4])
            IN  IF Len(cs) = 0 \/ i = <<>> THEN cs
                ELSE SetLast(cs, "Author",
                             [Name |-> isAuthor[2], Email |-> isAuthor[3], Time |-> <<i[1]>>])
        ELSE IF isMessage # NoMatch THEN
            IF Len(cs) = 0 THEN cs
            ELSE SetLast(cs, "Message", Append(cs[Current(cs)].Message, isMessage[2]))
        ELSE IF isDiff # NoMatch THEN
            LET add == ParseInt(isDiff[2])
                del == ParseInt(isDiff[3])
            IN  IF Len(cs) = 0 \/ add = <<>> \/ del = <<>> THEN cs
                ELSE SetLast(cs, "Diff",
                             Append(cs[Current(cs)].Diff,
                                    [File |-> isDiff[4], Add |-> add[1], Delete |-> del[1]]))
        ELSE cs

(***************************************************************************)
(* edit2score                                                              *)
(***************************************************************************)
\* edit2score with the loop left one turn early (n <= 1 for n < 1).
RECURSIVE edit2scoreEarly(_)
edit2scoreEarly(n) == IF n <= 1 THEN 0 ELSE 1 + edit2scoreEarly(n \div 10)

RECURSIVE edit2scoreLoop(_, _)
edit2scoreLoop(n, s) == IF n < 1 THEN s ELSE edit2scoreLoop(n \div 10, s + 1)

edit2score(n) == edit2scoreLoop(n, 0)

(***************************************************************************)
(* Churn scoring                                                           *)
(***************************************************************************)
EmptyMap == [x \in {} |-> 0]

\* m[key] = value
Put(f, key, value) == [x \in DOMAIN f \cup {key} |-> IF x = key THEN value ELSE f[x]]

\* delete(m, key)
Delete(f, key) == [x \in DOMAIN f \ {key} |-> f[x]]

\* The closure add of main.
add(mm, name, commit, sc) ==
    IF name \in DOMAIN mm
    THEN [mm EXCEPT ![name].Commit = Append(@, commit), ![name].Score = @ + sc]
    ELSE Put(mm, name, [Name |-> name, Score |-> sc, Commit |-> <<commit>>, Reason |-> <<>>])

\* The files main scores.
IsSource(file) == HasSuffix(file, ".h") \/ HasSuffix(file, ".c") \/ HasSuffix(file, ".go")

\* The loop over commit.Diff from entry i on; acc holds m, files and score.
RECURSIVE PerFile(_, _, _)
PerFile(acc, c, i) ==
    IF i > Len(commits[c].Diff) THEN acc
    ELSE LET diff == commits[c].Diff[i]
             fileScore == edit2score(diff.Add + diff.Delete)
         IN  IF IsSource(diff.File)
             THEN PerFile([m |-> add(acc.m, diff.File, c, fileScore),
                           files |-> Append(acc.files, diff.File),
                           score |-> acc.score + fileScore], c, i + 1)
             ELSE PerFile(acc, c, i + 1)

\* The per-group part of the loop body.
PerGroup(acc, c) ==
    IF Len(acc.files) >= 2
    THEN add(acc.m, Join(acc.files, ","), c, acc.score * Len(acc.files))
    ELSE acc.m

\* One turn of the loop over commits.
ScoreCommit ==
    /\ pc = "main"
    /\ ci <= Len(commits)
    /\ m' = PerGroup(PerFile([m |-> m, files |-> <<>>, score |-> 0], ci, 1), ci)
    /\ ci' = ci + 1
    /\ UNCHANGED <<pc, input, lpos, commits, visited, cur, k, plus, minus, delta,
                   targets, repo, arg, score>>

(***************************************************************************)
(* Thrash analysis                                                         *)
(***************************************************************************)
\* GitDiff(commitID): the lines the patch adds and removes, or an error when
\* git diff fails for the commit.  repo holds the lines that pass GitDiff's
\* filters.
GitDiff(commitID) ==
    IF repo[commitID].err THEN [add |-> <<>>, del |-> <<>>, err |-> TRUE]
    ELSE [add |-> repo[commitID].add, del |-> repo[commitID].del, err |-> FALSE]

\* A detector that leaves the matched entry in its map.
ConsumeNothing(other, line) == other

\* delete(minus, line), delete(plus, line): a thrash event takes the entry it matched.
Consume(other, line) == Delete(other, line)

\* A detector that does not look at which commit recorded the entry.
ThrashesWithinCommit(other, line, commitID) == line \in DOMAIN other

\* if id, ok := other[line]; ok && id != commit.ID
Thrashes(other, line, commitID) == line \in DOMAIN other /\ other[line] # commitID

\* The body of the loop over add; st holds plus, minus and delta.
AddLine(st, line, id) ==
    LET hit == Thrashes(st.minus, line, id)
    IN  [plus  |-> Put(st.plus, line, id),
         minus |-> IF hit THEN Consume(st.minus, line) ELSE st.minus,
         delta |-> IF hit
                   THEN Put(st.delta, line,
                            (IF line \in DOMAIN st.delta THEN st.delta[line] ELSE 0) + 1)
                   ELSE st.delta]

\* The body of the loop over del.
DelLine(st, line, id) ==
    LET hit == Thrashes(st.plus, line, id)
    IN  [plus  |-> IF hit THEN Consume(st.plus, line) ELSE st.plus,
         minus |-> Put(st.minus, line, id),
         delta |-> IF hit
                   THEN Put(st.delta, line,
                            (IF line \in DOMAIN st.delta THEN st.delta[line] ELSE 0) + 1)
                   ELSE st.delta]

RECURSIVE AddLines(_, _, _)
AddLines(st, lines, id) ==
    IF lines = <<>> THEN st ELSE AddLines(AddLine(st, Head(lines), id), Tail(lines), id)

RECURSIVE DelLines(_, _, _)
DelLines(st, lines, id) ==
    IF lines = <<>> THEN st ELSE DelLines(DelLine(st, Head(lines), id), Tail(lines), id)

\* The body of the loop over t.Commit, for the outcome r of GitDiff.
Replay(st, r, id) ==
    IF r.err THEN st ELSE DelLines(AddLines(st, r.add, id), r.del, id)

\* for _, t := range m: the next Target, in any order.
BeginTarget ==
    /\ pc = "main"
    /\ ci > Len(commits)
    /\ cur = ""
    /\ \E name \in DOMAIN m \ visited :
        /\ cur' = name
        /\ visited' = visited \cup {name}
    /\ k' = 1
    /\ plus' = EmptyMap
    /\ minus' = EmptyMap
    /\ delta' = EmptyMap
    /\ UNCHANGED <<pc, input, lpos, commits, ci, m, targets, repo, arg, score>>

\* A loop over t.Commit that a failed GitDiff ends (break for continue).
ReplayCommitBreak ==
    /\ pc = "main"
    /\ cur # ""
    /\ k <= Len(m[cur].Commit)
    /\ LET id == commits[m[cur].Commit[k]].ID
            r == GitDiff(id)
            st == Replay([plus |-> plus, minus |-> minus, delta |-> delta], r, id)
        IN  /\ plus' = st.plus
            /\ minus' = st.minus
            /\ delta' = st.delta
            /\ k' = IF r.err THEN Len(m[cur].Commit) + 1 ELSE k + 1
    /\ UNCHANGED <<pc, input, lpos, commits, ci, m, visited, cur, targets, repo, arg, score>>

\* One turn of the loop over t.Commit.
ReplayCommit ==
    /\ pc = "main"
    /\ cur # ""
    /\ k <= Len(m[cur].Commit)
    /\ LET id == commits[m[cur].Commit[k]].ID
            r == GitDiff(id)
            st == Replay([plus |-> plus, minus |-> minus, delta |-> delta], r, id)
        IN  /\ plus' = st.plus
            /\ minus' = st.minus
            /\ delta' = st.delta
    /\ k' = k + 1
    /\ UNCHANGED <<pc, input, lpos, commits, ci, m, visited, cur, targets, repo, arg, score>>

RECURSIVE Sum(_, _)
Sum(f, S) == IF S = {} THEN 0 ELSE LET x == CHOOSE y \in S : TRUE IN f[x] + Sum(f, S \ {x})

\* The sequences over S of length at most n.
SeqsUpTo(S, n) == UNION {[1..len -> S] : len \in 0..n}

\* The sequences that hold each element of S once.
Orders(S) == {s \in [1..Cardinality(S) -> S] : \A i, j \in 1..Cardinality(S) : s[i] = s[j] => i = j}

\* The rearrangements of the sequence s.
Permutations_(s) ==
    {[i \in 1..Len(s) |-> s[p[i]]] : p \in Orders(1..Len(s))}

\* ByCount.Less on two Reasons
ByCountLess(a, b) == a.Count > b.Count

\* A Less that puts the Target with fewer commits first among equal scores.
ByScoreLessFewerFirst(a, b) ==
    a.Score > b.Score \/ (a.Score = b.Score /\ Len(a.Commit) < Len(b.Commit))

\* ByScore.Less on two Targets
ByScoreLess(a, b) ==
    a.Score > b.Score \/ (a.Score = b.Score /\ Len(a.Commit) > Len(b.Commit))

\* What sort.Sort(ByCount(reasons)) may leave: sort.Sort is not stable.
SortByCount(reasons) ==
    {s \in Permutations_(reasons) :
        \A i, j \in 1..Len(s) : i < j => ~ByCountLess(s[j], s[i])}

\* What sort.Sort(ByScore(ts)) may leave, ts being keys of mm.
SortByScore(ts, mm) ==
    {s \in Permutations_(ts) :
        \A i, j \in 1..Len(s) : i < j => ~ByScoreLess(mm[s[j]], mm[s[i]])}

\* The Reasons of delta, in the order the range over the map yields them.
Reasons(d) == {[i \in 1..Len(o) |-> [Line |-> o[i], Count |-> d[o[i]]]] : o \in Orders(DOMAIN d)}

\* A score that adds the thrash count.
FinalScoreAdds(churn, total) == churn + total

\* t.Score *= float64(total)
FinalScore(churn, total) == churn * total

\* A filter that lets a score of 0 through.
SurvivesAtZero(t) == t.Score >= 0

\* if t.Score > 0
Survives(t) == t.Score > 0

\* The end of the loop body of the range over m.
FinishTarget ==
    /\ pc = "main"
    /\ cur # ""
    /\ k > Len(m[cur].Commit)
    /\ \E unsorted \in Reasons(delta) :
       \E reason \in SortByCount(unsorted) :
        LET total == Sum(delta, DOMAIN delta)
            t == [m[cur] EXCEPT !.Reason = reason, !.Score = FinalScore(@, total)]
        IN  /\ m' = [m EXCEPT ![cur] = t]
            /\ targets' = IF Survives(t) THEN Append(targets, cur) ELSE targets
    /\ cur' = ""
    /\ UNCHANGED <<pc, input, lpos, commits, ci, visited, k, plus, minus, delta, repo,
                   arg, score>>

\* sort.Sort(ByScore(targets)), once the range over m is over.
SortTargets ==
    /\ pc = "main"
    /\ ci > Len(commits)
    /\ cur = ""
    /\ visited = DOMAIN m
    /\ targets' \in SortByScore(targets, m)
    /\ pc' = "done"
    /\ UNCHANGED <<input, lpos, commits, ci, m, visited, cur, k, plus, minus, delta, repo,
                   arg, score>>

(***************************************************************************)
(* edit2score alone                                                        *)
(***************************************************************************)
MaxN == 1200

InitEdit ==
    /\ pc = "edit"
    /\ arg = 0
    /\ score = 0
    /\ input = <<>>
    /\ lpos = 1
    /\ commits = <<>>
    /\ repo = EmptyMap
    /\ ci = 1
    /\ m = EmptyMap
    /\ visited = {}
    /\ cur = ""
    /\ k = 1
    /\ plus = EmptyMap
    /\ minus = EmptyMap
    /\ delta = EmptyMap
    /\ targets = <<>>

\* A call of edit2score.
Edit2Score ==
    /\ pc = "edit"
    /\ \E n \in 0..MaxN :
        /\ arg' = n
        /\ score' = edit2score(n)
    /\ UNCHANGED <<pc, input, lpos, commits, ci, m, visited, cur, k, plus, minus, delta,
                   targets, repo>>

SpecEdit == InitEdit /\ [][Edit2Score]_vars

(***************************************************************************)
(* GitLog alone                                                            *)
(***************************************************************************)
MaxLogLines == 4

\* Lines of git log --format=raw --numstat: headers of two commits, a tree,
\* a parent, an author with a timestamp and one without, a message line, a
\* numstat line, numstat's line for a binary file, a numstat line whose count
\* is out of int64's range.
LogLines ==
    {"commit c1", "commit c2", "tree t1", "parent c0",
     "author me <m@x> 15 +1", "author me <m@x> soon +1",
     "    fix", "3\t4\ta.c", "-\t-\ta.png", "99999999999999999999\t1\tb.go"}

InitLog ==
    /\ pc = "log"
    /\ input \in SeqsUpTo(LogLines, MaxLogLines)
    /\ lpos = 1
    /\ commits = <<>>
    /\ arg = 0
    /\ score = 0
    /\ repo = EmptyMap
    /\ ci = 1
    /\ m = EmptyMap
    /\ visited = {}
    /\ cur = ""
    /\ k = 1
    /\ plus = EmptyMap
    /\ minus = EmptyMap
    /\ delta = EmptyMap
    /\ targets = <<>>

\* for s.Scan(): one line of the log.
Scan ==
    /\ pc = "log"
    /\ lpos <= Len(input)
    /\ commits' = ScanLine(commits, input[lpos])
    /\ lpos' = lpos + 1
    /\ UNCHANGED <<pc, input, ci, m, visited, cur, k, plus, minus, delta, targets,
                   repo, arg, score>>

SpecLog == InitLog /\ [][Scan]_vars

(***************************************************************************)
(* main from GitLog's return on                                            *)
(***************************************************************************)
\* git's --numstat lists the files a commit touches once each, sorted by
\* path: the Diff lists over paths (sorted), the counts <<Add, Delete>> of a
\* path drawn from counts[path].
RECURSIVE DiffLists(_, _)
DiffLists(paths, counts) ==
    IF paths = <<>> THEN {<<>>}
    ELSE LET rest == DiffLists(Tail(paths), counts)
         IN  rest \cup {<<[File |-> Head(paths), Add |-> c[1], Delete |-> c[2]]>> \o r :
                           c \in counts[Head(paths)], r \in rest}

\* The ID of the i-th commit of the log: commit IDs are unique.
CommitID(i) == "c" \o ToString(i)

\* The logs of n commits whose Diff lists are drawn from diffs.
Logs(n, diffs) ==
    {[i \in 1..n |-> [NewCommit(CommitID(i)) EXCEPT !.Diff = d[i]]] : d \in [1..n -> diffs]}

\* The patches of one commit: it adds at most one of lines and removes at most
\* one; err tells that git diff fails for the commit.
Patches(lines, errors) ==
    LET one == {<<>>} \cup {<<l>> : l \in lines}
    IN  [add : one, del : one, err : errors]

\* main after GitLog has returned a log of at most n commits.
MainInit(n, diffs, patches) ==
    /\ pc = "main"
    /\ input = <<>>
    /\ lpos = 1
    /\ arg = 0
    /\ score = 0
    /\ \E len \in 0..n :
        /\ commits \in Logs(len, diffs)
        /\ repo \in [{CommitID(i) : i \in 1..len} -> patches]
    /\ ci = 1
    /\ m = EmptyMap
    /\ visited = {}
    /\ cur = ""
    /\ k = 1
    /\ plus = EmptyMap
    /\ minus = EmptyMap
    /\ delta = EmptyMap
    /\ targets = <<>>

MaxCommits == 3

\* Commits that touch a.c, b.go or both, by 12 lines each; one thrashing line;
\* git diff succeeds.
Init ==
    MainInit(MaxCommits,
             DiffLists(<<"a.c", "b.go">>, [p \in {"a.c", "b.go"} |-> {<<7, 5>>}]) \ {<<>>},
             Patches({"if (foo)"}, {FALSE}))

Next == ScoreCommit \/ BeginTarget \/ ReplayCommit \/ FinishTarget \/ SortTargets

Spec == Init /\ [][Next]_vars

\* Commits that all touch a.c by 12 lines; two thrashing lines; git diff may
\* fail for a commit.
InitThrash ==
    MainInit(MaxCommits,
             DiffLists(<<"a.c">>, [p \in {"a.c"} |-> {<<7, 5>>}]) \ {<<>>},
             Patches({"if (foo)", "x = 1"}, BOOLEAN))

SpecThrash == InitThrash /\ [][Next]_vars

MaxChurnCommits == 2

\* Commits that touch any of four paths, one of them a path with a comma and
\* one of them no source file; no patch matters.
InitChurn ==
    MainInit(MaxChurnCommits,
             DiffLists(<<"a.c", "a.c,b.go", "b.go", "n.md">>,
                       [p \in {"a.c", "a.c,b.go", "b.go", "n.md"} |->
                           CASE p = "a.c" -> {<<7, 5>>, <<0, 0>>}
                             [] p = "a.c,b.go" -> {<<3, 2>>}
                             [] p = "b.go" -> {<<100, 200>>, <<0, 1>>}
                             [] p = "n.md" -> {<<4, 4>>}]),
             Patches({}, {FALSE}))

SpecChurn == InitChurn /\ [][ScoreCommit]_vars

(***************************************************************************)
(* The ranking alone                                                       *)
(***************************************************************************)
MaxScore == 3
MaxMembers == 3

\* main when the range over m is over, for any Targets of a positive Score:
\* ByScore reads their Score and the length of their Commit.
InitRank ==
    /\ pc = "main"
    /\ input = <<>>
    /\ lpos = 1
    /\ arg = 0
    /\ score = 0
    /\ commits = [i \in 1..MaxMembers |-> NewCommit(CommitID(i))]
    /\ repo = [id \in {CommitID(i) : i \in 1..MaxMembers} |->
                  [add |-> <<>>, del |-> <<>>, err |-> FALSE]]
    /\ ci = MaxMembers + 1
    /\ \E names \in SUBSET {"a.c", "b.go", "a.c,b.go"} :
        /\ \E scores \in [names -> 1..MaxScore] :
           \E members \in [names -> 2..MaxMembers] :
            m = [n \in names |->
                    [Name |-> n, Score |-> scores[n],
                     Commit |-> [i \in 1..members[n] |-> i],
                     Reason |-> <<[Line |-> "if (foo)", Count |-> 1]>>]]
        /\ visited = names
        /\ targets \in Orders(names)
    /\ cur = ""
    /\ k = 1
    /\ plus = EmptyMap
    /\ minus = EmptyMap
    /\ delta = EmptyMap

SpecRank == InitRank /\ [][SortTargets]_vars

(***************************************************************************)
(* C9: GitLog                                                              *)
(***************************************************************************)
\* The lines the Scanner has yielded.
Scanned == SubSeq(input, 1, lpos - 1)

IsHeader(line) == commitRegexp(line) # NoMatch

\* The indices of the commit-header lines of ls.
Headers(ls) == {i \in 1..Len(ls) : IsHeader(ls[i])}

\* The index of the j-th commit-header line of ls.
HeaderAt(ls, j) == CHOOSE i \in Headers(ls) : Cardinality({h \in Headers(ls) : h <= i}) = j

\* The lines of ls between the j-th commit-header line and the next one.
Section(ls, j) ==
    LET from == HeaderAt(ls, j)
        later == {h \in Headers(ls) : h > from}
        to == IF later = {} THEN Len(ls) + 1 ELSE CHOOSE h \in later : \A g \in later : h <= g
    IN  SubSeq(ls, from + 1, to - 1)

IsTree(line) == treeRegexp(line) # NoMatch
IsParent(line) == parentRegexp(line) # NoMatch
IsMessage(line) == messageRegexp(line) # NoMatch
IsAuthor(line) == authorRegexp(line) # NoMatch /\ ParseInt(authorRegexp(line)[4]) # <<>>
IsStat(line) ==
    /\ diffRegexp(line) # NoMatch
    /\ ParseInt(diffRegexp(line)[2]) # <<>>
    /\ ParseInt(diffRegexp(line)[3]) # <<>>

\* The last line of sec that Is, as a sequence of none or one line.
LastOf(sec, Is(_)) ==
    LET found == SelectSeq(sec, Is) IN IF found = <<>> THEN <<>> ELSE <<found[Len(found)]>>

\* The Commit that the j-th commit-header line of ls and its section make.
CommitOf(ls, j) ==
    LET sec == Section(ls, j)
        tree == LastOf(sec, IsTree)
        parent == LastOf(sec, IsParent)
        author == LastOf(sec, IsAuthor)
        message == SelectSeq(sec, IsMessage)
        stat == SelectSeq(sec, IsStat)
    IN  [ID |-> From(ls[HeaderAt(ls, j)], 8),
         Tree |-> IF tree = <<>> THEN "" ELSE From(tree[1], 6),
         Parent |-> IF parent = <<>> THEN "" ELSE From(parent[1], 8),
         Author |-> IF author = <<>> THEN NoAuthor
                    ELSE LET f == Split(author[1], " ")
                         IN  [Name |-> f[2], Email |-> SubSeq(f[3], 2, Len(f[3]) - 1),
                              Time |-> <<Atoi(f[4])>>],
         Message |-> [i \in 1..Len(message) |-> From(message[i], 5)],
         Diff |-> [i \in 1..Len(stat) |->
                      LET f == Split(stat[i], "\t")
                      IN  [File |-> f[3], Add |-> Atoi(f[1]), Delete |-> Atoi(f[2])]]]

RECURSIVE Power10(_)
Power10(d) == IF d = 0 THEN 1 ELSE 10 * Power10(d - 1)

\* floor(log10(n)) + 1 for n >= 1: the d with 10^(d-1) <= n < 10^d.
DecimalDigits(n) == CHOOSE d \in 1..9 : Power10(d - 1) <= n /\ n < Power10(d)

\* C4: for every n >= 0, edit2score(n) returns the number of decimal digits
\* of n (floor(log10(n)) + 1), and 0 for n = 0.
C4_DecimalDigits ==
    pc = "edit" => score = IF arg = 0 THEN 0 ELSE DecimalDigits(arg)

\* edit2score(100) = 3
C4_Witness == pc = "edit" /\ arg = 100 /\ score = 3

(***************************************************************************)
(* The thrash analysis of a Target, as the claims speak of it              *)
(***************************************************************************)
\* The Targets whose turn of the range over m is over.
Finished == visited \ {cur}

\* The ID of the j-th member commit of the Target t.
MemberID(t, j) == commits[m[t].Commit[j]].ID

\* The positions in t.Commit of the commits whose patch, as GitDiff returns
\* it, adds the line, and of those whose patch removes it.
Adders(t, line) ==
    {j \in 1..Len(m[t].Commit) : \E i \in DOMAIN GitDiff(MemberID(t, j)).add :
                                    GitDiff(MemberID(t, j)).add[i] = line}

Removers(t, line) ==
    {j \in 1..Len(m[t].Commit) : \E i \in DOMAIN GitDiff(MemberID(t, j)).del :
                                    GitDiff(MemberID(t, j)).del[i] = line}

\* The lines of the repository's patches.
RepoLines ==
    UNION {{repo[id].add[i] : i \in DOMAIN repo[id].add} \cup
           {repo[id].del[i] : i \in DOMAIN repo[id].del} : id \in DOMAIN repo}

\* The Count of the Reason of t for the line, 0 when t has no such Reason.
ReasonCount(t, line) ==
    LET at == {i \in DOMAIN m[t].Reason : m[t].Reason[i].Line = line}
    IN  IF at = {} THEN 0 ELSE m[t].Reason[CHOOSE i \in at : TRUE].Count

\* The sum of Count over the Reasons of t.
RECURSIVE SumCounts(_)
SumCounts(reasons) ==
    IF reasons = <<>> THEN 0 ELSE Head(reasons).Count + SumCounts(Tail(reasons))

ThrashCount(t) == SumCounts(m[t].Reason)

(***************************************************************************)
(* C1, C2: which occurrences of a line count                               *)
(***************************************************************************)
\* C1: a line that one member commit both adds and removes, and no other
\* member commit touches, gets no Reason; a line that one member commit adds
\* and a different one removes, and no other touches, gets a Reason of Count
\* 1, whichever of the two is replayed first.
C1_CommitIdentity ==
    \A t \in Finished : \A line \in RepoLines :
        LET adders == Adders(t, line)
            removers == Removers(t, line)
        IN  /\ (\E j \in adders : adders = {j} /\ removers = {j})
                => \A i \in DOMAIN m[t].Reason : m[t].Reason[i].Line # line
            /\ (\E a \in adders : \E b \in removers :
                    /\ MemberID(t, a) # MemberID(t, b)
                    /\ adders = {a}
                    /\ removers = {b})
                => ReasonCount(t, line) = 1

\* A finished Target with a line added and removed by one commit, and another
\* line removed by a commit replayed before the one that adds it.
C1_Witness ==
    \E t \in Finished : \E l1, l2 \in RepoLines :
        /\ \E j \in 1..Len(m[t].Commit) : Adders(t, l1) = {j} /\ Removers(t, l1) = {j}
        /\ \E a, b \in 1..Len(m[t].Commit) :
            b < a /\ Adders(t, l2) = {a} /\ Removers(t, l2) = {b}
        /\ ReasonCount(t, l1) = 0
        /\ ReasonCount(t, l2) = 1

\* The line occurs three times, once in each of the member commits at
\* a < b < c: a adds it, b removes it; adders and removers are the positions
\* of the member commits that add and that remove the line.
AddedRemovedAndOnceMore(adders, removers, a, b, c) ==
    /\ a < b /\ b < c
    /\ adders \cup removers = {a, b, c}
    /\ adders \cap removers = {}
    /\ a \in adders
    /\ b \in removers

\* C2 as claimed: a line added in A, removed in B and occurring once more in a
\* third commit C, replayed in that order, has a Reason of Count 1: the third
\* occurrence alone is no thrash event.
C2_ThirdOccurrenceNeverCounts ==
    \A t \in Finished : \A line \in RepoLines :
        LET adders == Adders(t, line)
            removers == Removers(t, line)
        IN  (\E a \in adders : \E b \in removers : \E c \in adders \cup removers :
                AddedRemovedAndOnceMore(adders, removers, a, b, c))
                => ReasonCount(t, line) = 1

\* C2 as the code has it: the event takes the entry of A out of the added
\* map, and B's removal is recorded in the removed map.  A third occurrence
\* that is a removal meets no entry and the Count stays 1; a third occurrence
\* that is an addition meets B's removal and is a second event, Count 2.
C2_ThirdOccurrence ==
    \A t \in Finished : \A line \in RepoLines :
        LET adders == Adders(t, line)
            removers == Removers(t, line)
        IN  \A a \in adders : \A b \in removers : \A c \in adders \cup removers :
                AddedRemovedAndOnceMore(adders, removers, a, b, c) =>
                    ReasonCount(t, line) = IF c \in removers THEN 1 ELSE 2

\* A finished Target with a line added, removed and removed again.
C2_Witness ==
    \E t \in Finished : \E line \in RepoLines :
        \E a, b, c \in 1..Len(m[t].Commit) :
            /\ AddedRemovedAndOnceMore(Adders(t, line), Removers(t, line), a, b, c)
            /\ c \in Removers(t, line)
            /\ ReasonCount(t, line) = 1

(***************************************************************************)
(* C5: the final Score                                                     *)
(***************************************************************************)
\* The Diffs of the commit c that main scores.
SourceDiffs(c) == SelectSeq(commits[c].Diff, LAMBDA d : IsSource(d.File))

RECURSIVE SumMagnitudes(_)
SumMagnitudes(diffs) ==
    IF diffs = <<>> THEN 0
    ELSE edit2score(Head(diffs).Add + Head(diffs).Delete) + SumMagnitudes(Tail(diffs))

\* What the commit c adds to the churn Score of the Target called name: as a
\* file of the commit, and as the group of the commit's files.
Contribution(c, name) ==
    LET diffs == SourceDiffs(c)
    IN  SumMagnitudes(SelectSeq(diffs, LAMBDA d : d.File = name))
        + IF Len(diffs) >= 2 /\ Join([i \in 1..Len(diffs) |-> diffs[i].File], ",") = name
          THEN SumMagnitudes(diffs) * Len(diffs)
          ELSE 0

RECURSIVE ChurnUpTo(_, _)
ChurnUpTo(c, name) == IF c = 0 THEN 0 ELSE ChurnUpTo(c - 1, name) + Contribution(c, name)

\* The accumulated churn Score of the Target called name.
Churn(name) == ChurnUpTo(ci - 1, name)

\* C5: the Score of a Target is its accumulated churn Score until its thrash
\* analysis is over, and from then on the churn Score times the sum of Count
\* over its Reasons.  A Target with one line that a commit removes and another
\* commit adds, and no other Reason, has the one Reason {line, 1} and its
\* churn Score for final Score.
C5_FinalScore ==
    \A t \in DOMAIN m :
        LET churn == Churn(t)
        IN  /\ t \notin Finished => m[t].Score = churn
            /\ t \in Finished => m[t].Score = churn * ThrashCount(t)
            /\ t \in Finished =>
                \A line \in RepoLines :
                    LET adders == Adders(t, line)
                        removers == Removers(t, line)
                    IN  (/\ \E a \in removers : \E b \in adders :
                                a # b /\ removers = {a} /\ adders = {b}
                         /\ \A other \in RepoLines \ {line} : ReasonCount(t, other) = 0)
                        => /\ m[t].Reason = <<[Line |-> line, Count |-> 1]>>
                           /\ m[t].Score = churn

\* A finished Target with two Reasons, and a Score of its churn times 3.
C5_Witness ==
    \E t \in Finished :
        /\ Len(m[t].Reason) = 2
        /\ ThrashCount(t) = 3
        /\ Churn(t) > 0
        /\ m[t].Score = Churn(t) * 3

(***************************************************************************)
(* C8: a patch that cannot be fetched                                      *)
(***************************************************************************)
\* The next member commit of cur is one git diff fails for.
NextFetchFails ==
    /\ pc = "main"
    /\ cur # ""
    /\ k <= Len(m[cur].Commit)
    /\ repo[MemberID(cur, k)].err

\* C8: the turn of the loop for a commit whose patch cannot be fetched goes on
\* to the next member commit and leaves the added map, the removed map and
\* the thrash counts as a commit of no added and no removed line would; the
\* Target keeps its member commits and its Score.
C8_FetchFailure ==
    [][NextFetchFails =>
        /\ k' = k + 1
        /\ cur' = cur
        /\ [plus |-> plus', minus |-> minus', delta |-> delta'] =
               Replay([plus |-> plus, minus |-> minus, delta |-> delta],
                      [add |-> <<>>, del |-> <<>>, err |-> FALSE], MemberID(cur, k))
        /\ plus' = plus /\ minus' = minus /\ delta' = delta
        /\ m' = m
        /\ targets' = targets]_vars

\* The loop is past a commit whose patch could not be fetched and adds a line
\* that the removed map holds, with a member commit still to replay.
C8_Witness ==
    /\ pc = "main"
    /\ cur # ""
    /\ k > 1
    /\ k <= Len(m[cur].Commit)
    /\ repo[MemberID(cur, k - 1)].err
    /\ \E i \in DOMAIN repo[MemberID(cur, k - 1)].add :
        /\ repo[MemberID(cur, k - 1)].add[i] \in DOMAIN minus
        /\ repo[MemberID(cur, k - 1)].add[i] \notin DOMAIN delta

(***************************************************************************)
(* C6, C10: the Targets that get into the output                           *)
(***************************************************************************)
\* The Targets of the list targets.
Listed == {targets[i] : i \in DOMAIN targets}

\* C6: a Target with no thrash event is never in the list of the Targets to
\* rank, whatever its churn Score; every Target of the list has a Score
\* above 0.
C6_NoThrashNoOutput ==
    /\ \A t \in Finished : ThrashCount(t) = 0 => t \notin Listed
    /\ \A t \in Listed : t \in Finished /\ m[t].Score > 0

\* The ranked list holds a Target, and a Target of a churn Score above 0 and
\* no thrash event is left out of it.
C6_Witness ==
    /\ pc = "done"
    /\ Listed # {}
    /\ \E t \in Finished : ThrashCount(t) = 0 /\ Churn(t) > 0 /\ t \notin Listed

\* C10: a line has a thrash count only once two replayed member commits of
\* different IDs have touched it, one adding and one removing it; a Target of
\* the list has two member commits of different IDs at least; a Target whose
\* member commits all have one ID has no Reason and is not in the list.
C10_TwoCommits ==
    /\ cur # "" =>
        \A line \in DOMAIN delta :
            \E a, b \in 1..(k - 1) :
                /\ MemberID(cur, a) # MemberID(cur, b)
                /\ a \in Adders(cur, line)
                /\ b \in Removers(cur, line)
    /\ \A t \in Listed :
        \E a, b \in 1..Len(m[t].Commit) : MemberID(t, a) # MemberID(t, b)
    /\ \A t \in Finished :
        (\A a, b \in 1..Len(m[t].Commit) : MemberID(t, a) = MemberID(t, b))
            => m[t].Reason = <<>> /\ t \notin Listed

\* The ranking is over; a Target of one member commit, which adds and removes
\* the same line, is left out, and a Target is in.
C10_Witness ==
    /\ pc = "done"
    /\ Listed # {}
    /\ \E t \in Finished : \E line \in RepoLines :
        /\ Len(m[t].Commit) = 1
        /\ Adders(t, line) = {1}
        /\ Removers(t, line) = {1}
        /\ t \notin Listed

(***************************************************************************)
(* C7: the ranking                                                         *)
(***************************************************************************)
\* C7 as claimed: of two adjacent Targets of the ranked list, the earlier has
\* the higher Score, or the same Score and strictly more member commits.
C7_StrictRanking ==
    pc = "done" =>
        \A i \in 1..(Len(targets) - 1) :
            LET t == m[targets[i]]
                u == m[targets[i + 1]]
            IN  t.Score > u.Score \/ (t.Score = u.Score /\ Len(t.Commit) > Len(u.Commit))

\* C7 as the code has it: the earlier has the higher Score, or the same Score
\* and at least as many member commits; two Targets of one Score and one
\* number of member commits are adjacent in either order.
C7_Ranking ==
    pc = "done" =>
        \A i \in 1..(Len(targets) - 1) :
            LET t == m[targets[i]]
                u == m[targets[i + 1]]
            IN  t.Score > u.Score \/ (t.Score = u.Score /\ Len(t.Commit) >= Len(u.Commit))

\* A ranked list of three Targets: a higher Score first, then two of one Score
\* of which the first has more member commits.
C7_Witness ==
    /\ pc = "done"
    /\ Len(targets) = 3
    /\ m[targets[1]].Score > m[targets[2]].Score
    /\ m[targets[2]].Score = m[targets[3]].Score
    /\ Len(m[targets[2]].Commit) > Len(m[targets[3]].Commit)

(***************************************************************************)
(* C3: the co-change Targets                                               *)
(***************************************************************************)
\* The commits the churn loop has been through.
Scored == 1..(ci - 1)

\* The commits with two source files at least: those of a co-change.
IsCoChange(c) == Len(SourceDiffs(c)) >= 2

\* The name of the co-change Target of the commit c: its source files, joined
\* in the order of its Diff.
GroupName(c) == Join([i \in 1..Len(SourceDiffs(c)) |-> SourceDiffs(c)[i].File], ",")

\* The score of the co-change of the commit c.
GroupScore(c) == SumMagnitudes(SourceDiffs(c)) * Len(SourceDiffs(c))

\* The scored co-change commits whose Target is called name, in log order.
GroupCommits(name) ==
    SelectSeq([c \in 1..(ci - 1) |-> c], LAMBDA c : IsCoChange(c) /\ GroupName(c) = name)

RECURSIVE SumGroupScores(_)
SumGroupScores(cs) ==
    IF cs = <<>> THEN 0 ELSE GroupScore(Head(cs)) + SumGroupScores(Tail(cs))

\* C3: the co-change Target of a scored commit with two source files or more
\* exists under the name of its joined paths; its member commits are the
\* commits of that co-change and no other commit (a commit with no or one
\* source file adds nothing to it), and its Score is the sum, over them, of
\* (the sum of edit2score(Add + Delete) over the files) * (the number of files).
C3_CoChange ==
    pc = "main" /\ cur = "" /\ visited = {} =>
        \A c \in Scored :
            IsCoChange(c) =>
                /\ GroupName(c) \in DOMAIN m
                /\ m[GroupName(c)].Commit = GroupCommits(GroupName(c))
                /\ m[GroupName(c)].Score = SumGroupScores(GroupCommits(GroupName(c)))

====
